---- MODULE Spec2Model ----
(***************************************************************************)
(* The Toggler widget of iced_native (native/src/widget/toggler.rs):       *)
(* construction and fluent configuration, layout, event handling, drawing  *)
(* and layout hashing, as a state machine over one widget instance.        *)
(***************************************************************************)
EXTENDS Integers, Sequences, FiniteSets, TLC

VARIABLES
    toggler,          \* the widget: the fields of struct Toggler
    new_args,         \* the arguments that were given to Toggler::new
    last_set,         \* per fluent setter: the last value it was called with, if any
    messages,         \* the Vec<Message> the dispatcher hands to on_event
    out,              \* the last operation: its inputs and what it returned / called
    overflow_checks,  \* build profile: does u16 arithmetic panic on overflow (debug) or wrap (release)
    sibling           \* a second Toggler of the same view, hashed in the same pass

vars == <<toggler, new_args, last_set, messages, out, overflow_checks, sibling>>

----------------------------------------------------------------------------
(* Bounds and program constants *)

MaxMessages == 2
MaxCoord == 1

\* u16::MAX; Renderer::DEFAULT_SIZE and renderer.default_size() are chosen by
\* the renderer and TypeId::of::<Marker>() by the compiler: any fixed values.
U16_MAX == 65535
DEFAULT_SIZE == 20
TEXT_DEFAULT_SIZE == 16
TYPE_ID_MARKER == 7

----------------------------------------------------------------------------
(* Value domains *)

Fill == [kind |-> "Fill", n |-> 0]
Shrink == [kind |-> "Shrink", n |-> 0]
Units(n) == [kind |-> "Units", n |-> n]

None16 == [some |-> FALSE, v |-> 0]
Some16(v) == [some |-> TRUE, v |-> v]
NoneAlign == [some |-> FALSE, v |-> "Left"]
SomeAlign(a) == [some |-> TRUE, v |-> a]
NoneLength == [some |-> FALSE, v |-> Fill]
NoneName == [some |-> FALSE, v |-> "Default"]

unwrap_or(opt, default) == IF opt.some THEN opt.v ELSE default

U16Samples == {0, 1, U16_MAX \div 2, U16_MAX \div 2 + 1}
SmallU16 == {0, 7}
Lengths == {Fill, Shrink, Units(1)}
HorizontalAlignment == {"Left", "Center", "Right"}
Fonts == {"Default", "Monospace"}
Styles == {"Default", "Custom"}
Labels == {<<68>>, <<68, 77>>}
Callbacks == {"TogglerToggled", "Clicked"}

\* The application's closure: |b| Message::TogglerToggled(b), or one that ignores b.
Call(f, b) ==
    IF f = "TogglerToggled" THEN [msg |-> "TogglerToggled", b |-> b]
    ELSE [msg |-> "Clicked", b |-> FALSE]

OtherMessage == [msg |-> "Other", b |-> FALSE]

Min(a, b) == IF a <= b THEN a ELSE b
Max(a, b) == IF a >= b THEN a ELSE b

----------------------------------------------------------------------------
(* Geometry: Point, Rectangle, Layout *)

Coords == -1 .. MaxCoord
Points == {[x |-> a, y |-> b] : a \in Coords, b \in Coords}

Rect(x, y, w, h) == [x |-> x, y |-> y, width |-> w, height |-> h]

contains(r, p) ==
    /\ r.x <= p.x /\ p.x <= r.x + r.width
    /\ r.y <= p.y /\ p.y <= r.y + r.height

Node(b, cs) == [bounds |-> b, children |-> cs]

\* A layout with outer bounds b and n children laid side by side in it.
MkLayout(b, n) ==
    Node(b, [i \in 1 .. n |-> Node(Rect(b.x + i - 1, b.y, 0, b.height), <<>>)])

OuterRects == {Rect(0, 0, 1, 1), Rect(0, -1, 0, 1)}
WidgetLayouts == {MkLayout(b, 2) : b \in OuterRects}
AnyLayouts == {MkLayout(b, n) : b \in OuterRects, n \in 0 .. 3}

----------------------------------------------------------------------------
(* Toggler::new and the fluent setters *)

new(is_active, label, f) ==
    [is_active |-> is_active,
     on_toggle |-> f,
     label |-> label,
     width |-> Fill,
     size |-> DEFAULT_SIZE,
     text_size |-> None16,
     text_align |-> NoneAlign,
     spacing |-> 0,
     font |-> "Default",
     style |-> "Default"]

size_resets_spacing(self, v) == [self EXCEPT !.size = v, !.spacing = 0]

size(self, v) == [self EXCEPT !.size = v]

width(self, w) == [self EXCEPT !.width = w]

text_size(self, v) == [self EXCEPT !.text_size = Some16(v)]

text_align(self, a) == [self EXCEPT !.text_align = SomeAlign(a)]

spacing(self, v) == [self EXCEPT !.spacing = v]

font(self, f) == [self EXCEPT !.font = f]

style(self, s) == [self EXCEPT !.style = s]

NothingSet ==
    [size |-> None16, width |-> NoneLength, text_size |-> None16,
     text_align |-> NoneAlign, spacing |-> None16, font |-> NoneName,
     style |-> NoneName]

Configured == [op |-> "set"]

----------------------------------------------------------------------------
(* Widget::on_event *)

LeftPress == [kind |-> "Mouse", ev |-> "ButtonPressed", button |-> "Left"]

Events ==
    {[kind |-> "Mouse", ev |-> "ButtonPressed", button |-> b] :
        b \in {"Left", "Right", "Middle"}}
    \cup {[kind |-> "Mouse", ev |-> "ButtonReleased", button |-> "Left"],
          [kind |-> "Mouse", ev |-> "CursorMoved", button |-> "None"],
          [kind |-> "Keyboard", ev |-> "KeyPressed", button |-> "None"]}

Handled(self, msgs, calls, status) ==
    [self |-> self, messages |-> msgs, calls |-> calls, status |-> status]

on_event_same_state(self, event, lay, cursor_position, msgs) ==
    IF event = LeftPress /\ contains(lay.bounds, cursor_position)
    THEN Handled(self, Append(msgs, Call(self.on_toggle, self.is_active)),
                 <<self.is_active>>, "Captured")
    ELSE Handled(self, msgs, <<>>, "Ignored")

on_event_no_hit_test(self, event, lay, cursor_position, msgs) ==
    IF event = LeftPress
    THEN Handled(self, Append(msgs, Call(self.on_toggle, ~self.is_active)),
                 <<~self.is_active>>, "Captured")
    ELSE Handled(self, msgs, <<>>, "Ignored")

on_event_any_button(self, event, lay, cursor_position, msgs) ==
    IF event.ev = "ButtonPressed" /\ contains(lay.bounds, cursor_position)
    THEN Handled(self, Append(msgs, Call(self.on_toggle, ~self.is_active)),
                 <<~self.is_active>>, "Captured")
    ELSE Handled(self, msgs, <<>>, "Ignored")

on_event_flips(self, event, lay, cursor_position, msgs) ==
    IF event = LeftPress /\ contains(lay.bounds, cursor_position)
    THEN Handled([self EXCEPT !.is_active = ~self.is_active],
                 Append(msgs, Call(self.on_toggle, ~self.is_active)),
                 <<~self.is_active>>, "Captured")
    ELSE Handled(self, msgs, <<>>, "Ignored")

on_event(self, event, lay, cursor_position, msgs) ==
    IF event = LeftPress
    THEN LET mouse_over == contains(lay.bounds, cursor_position)
         IN  IF mouse_over
             THEN Handled(self,
                          Append(msgs, Call(self.on_toggle, ~self.is_active)),
                          <<~self.is_active>>, "Captured")
             ELSE Handled(self, msgs, <<>>, "Ignored")
    ELSE Handled(self, msgs, <<>>, "Ignored")

----------------------------------------------------------------------------
(* Widget::layout *)

\* u16 multiplication: the exact product, and what the 16-bit register holds.
mul_u16(a, b) == [exact |-> a * b, wrapped |-> (a * b) % (U16_MAX + 1)]

Renderers == {[default_size |-> TEXT_DEFAULT_SIZE]}

\* Text measurement by the renderer.
measure(content, text_sz) == [width |-> Len(content) * text_sz, height |-> text_sz]

LimitsSet ==
    {[max_width |-> 30, max_height |-> 10],
     [max_width |-> 100, max_height |-> 100],
     [max_width |-> 200000, max_height |-> 200000]}

\* The request the widget builds: Row [ Text, Row (the toggle-box) ].
row(self, renderer) ==
    LET w == mul_u16(2, self.size)
    IN  [overflow |-> w.exact > U16_MAX,
         width |-> self.width,
         spacing |-> self.spacing,
         align_items |-> "Center",
         children |->
            << [widget |-> "Text",
                content |-> self.label,
                horizontal_alignment |-> unwrap_or(self.text_align, "Left"),
                font |-> self.font,
                width |-> self.width,
                height |-> Shrink,
                size |-> unwrap_or(self.text_size, renderer.default_size)],
               [widget |-> "Row",
                width |-> Units(w.wrapped),
                height |-> Units(self.size)] >>]

\* The layout engine: one positioned box per child of the row, inside limits.
resolve(r, limits) ==
    LET n == Len(r.children)
        maxw == IF r.width.kind = "Units" THEN Min(r.width.n, limits.max_width)
                ELSE limits.max_width
        maxh == limits.max_height
        fixed(i) == r.children[i].widget = "Row"
        fw(i) == Min(r.children[i].width.n, maxw)
        fh(i) == Min(r.children[i].height.n, maxh)
        used == IF n >= 2 /\ fixed(2) THEN fw(2) + r.spacing ELSE 0
        avail == Max(maxw - used, 0)
        m(i) == measure(r.children[i].content, r.children[i].size)
        cw(i) == IF fixed(i) THEN fw(i)
                 ELSE IF r.children[i].width.kind = "Shrink"
                      THEN Min(m(i).width, avail) ELSE avail
        ch(i) == IF fixed(i) THEN fh(i) ELSE Min(m(i).height, maxh)
        h == IF n = 0 THEN 0 ELSE IF n = 1 THEN ch(1) ELSE Max(ch(1), ch(2))
        cx(i) == IF i = 1 THEN 0 ELSE cw(1) + r.spacing
        total == IF n = 0 THEN 0 ELSE IF n = 1 THEN cw(1)
                 ELSE cw(1) + r.spacing + cw(2)
        w == IF r.width.kind = "Shrink" THEN Min(total, maxw) ELSE maxw
    IN  Node(Rect(0, 0, w, h),
             [i \in 1 .. n |->
                 Node(Rect(cx(i), (h - ch(i)) \div 2, cw(i), ch(i)), <<>>)])

layout(self, renderer, limits) ==
    LET r == row(self, renderer)
    IN  IF r.overflow /\ overflow_checks
        THEN [outcome |-> "panic", row |-> r, node |-> Node(Rect(0, 0, 0, 0), <<>>)]
        ELSE [outcome |-> "ok", row |-> r, node |-> resolve(r, limits)]

----------------------------------------------------------------------------
(* Widget::draw *)

Defaults == [text_color |-> "Default"]

Panicked ==
    [outcome |-> "panic", text_calls |-> <<>>, toggle_calls |-> <<>>,
     output |-> [primitive |-> "None"]]

Drawn(text_call, toggle_call) ==
    [outcome |-> "ok", text_calls |-> <<text_call>>,
     toggle_calls |-> <<toggle_call>>,
     output |-> [primitive |-> "Toggler", args |-> toggle_call]]

TextCall(self, renderer, defaults, label_bounds) ==
    [defaults |-> defaults,
     bounds |-> label_bounds,
     content |-> self.label,
     size |-> unwrap_or(self.text_size, renderer.default_size),
     font |-> self.font,
     color |-> "None",
     horizontal_alignment |-> unwrap_or(self.text_align, "Left"),
     vertical_alignment |-> "Center"]

ToggleCall(self, toggler_bounds, is_mouse_over, label) ==
    [bounds |-> toggler_bounds,
     is_active |-> self.is_active,
     is_mouse_over |-> is_mouse_over,
     label |-> label,
     style |-> self.style]

draw_reuses_first_child(self, renderer, defaults, lay, cursor_position) ==
    LET children == lay.children
    IN  IF Len(children) < 1 THEN Panicked
        ELSE LET text_call == TextCall(self, renderer, defaults, children[1].bounds)
                 second == IF Len(children) < 2 THEN children[1] ELSE children[2]
             IN  Drawn(text_call,
                       ToggleCall(self, second.bounds,
                                  contains(lay.bounds, cursor_position),
                                  [primitive |-> "Text", args |-> text_call]))

draw_hover_on_toggle_box(self, renderer, defaults, lay, cursor_position) ==
    LET children == lay.children
    IN  IF Len(children) < 2 THEN Panicked
        ELSE LET text_call == TextCall(self, renderer, defaults, children[1].bounds)
             IN  Drawn(text_call,
                       ToggleCall(self, children[2].bounds,
                                  contains(children[2].bounds, cursor_position),
                                  [primitive |-> "Text", args |-> text_call]))

draw(self, renderer, defaults, lay, cursor_position) ==
    LET bounds == lay.bounds
        children == lay.children
    IN  IF Len(children) < 1 THEN Panicked
        ELSE IF Len(children) < 2 THEN Panicked
        ELSE LET label_layout == children[1]
                 toggler_layout == children[2]
                 toggler_bounds == toggler_layout.bounds
                 text_call == TextCall(self, renderer, defaults, label_layout.bounds)
                 label == [primitive |-> "Text", args |-> text_call]
                 is_mouse_over == contains(bounds, cursor_position)
             IN  Drawn(text_call,
                       ToggleCall(self, toggler_bounds, is_mouse_over, label))

----------------------------------------------------------------------------
(* Widget::hash_layout: the sequence of writes the Hasher receives *)

hash_layout_with_size(self) ==
    << <<TYPE_ID_MARKER>>, self.label, <<255>>, <<self.size>> >>

hash_layout(self) == << <<TYPE_ID_MARKER>>, self.label, <<255>> >>

----------------------------------------------------------------------------
(* Initial states *)

NewArgs == [is_active : BOOLEAN, label : Labels, on_toggle : Callbacks]

PlainSibling == new(FALSE, <<68>>, "Clicked")

Siblings ==
    {new(FALSE, l, "Clicked") : l \in Labels}
    \cup {style(font(spacing(text_align(text_size(width(size(
              new(TRUE, l, "TogglerToggled"), 1), Shrink), 7), "Right"), 7),
              "Monospace"), "Custom") : l \in Labels}

InitWith(profiles, siblings) ==
    /\ new_args \in NewArgs
    /\ toggler = new(new_args.is_active, new_args.label, new_args.on_toggle)
    /\ last_set = NothingSet
    /\ messages = <<>>
    /\ out = [op |-> "new"]
    /\ overflow_checks \in profiles
    /\ sibling \in siblings

Init == InitWith(BOOLEAN, Siblings)

----------------------------------------------------------------------------
(* Actions: the fluent setters *)

Size(S) ==
    \E v \in S :
        /\ toggler' = size(toggler, v)
        /\ last_set' = [last_set EXCEPT !.size = Some16(v)]
        /\ out' = Configured
        /\ UNCHANGED <<new_args, messages, overflow_checks, sibling>>

Width(S) ==
    \E w \in S :
        /\ toggler' = width(toggler, w)
        /\ last_set' = [last_set EXCEPT !.width = [some |-> TRUE, v |-> w]]
        /\ out' = Configured
        /\ UNCHANGED <<new_args, messages, overflow_checks, sibling>>

TextSize(S) ==
    \E v \in S :
        /\ toggler' = text_size(toggler, v)
        /\ last_set' = [last_set EXCEPT !.text_size = Some16(v)]
        /\ out' = Configured
        /\ UNCHANGED <<new_args, messages, overflow_checks, sibling>>

TextAlign(S) ==
    \E a \in S :
        /\ toggler' = text_align(toggler, a)
        /\ last_set' = [last_set EXCEPT !.text_align = SomeAlign(a)]
        /\ out' = Configured
        /\ UNCHANGED <<new_args, messages, overflow_checks, sibling>>

Spacing(S) ==
    \E v \in S :
        /\ toggler' = spacing(toggler, v)
        /\ last_set' = [last_set EXCEPT !.spacing = Some16(v)]
        /\ out' = Configured
        /\ UNCHANGED <<new_args, messages, overflow_checks, sibling>>

Font(S) ==
    \E f \in S :
        /\ toggler' = font(toggler, f)
        /\ last_set' = [last_set EXCEPT !.font = [some |-> TRUE, v |-> f]]
        /\ out' = Configured
        /\ UNCHANGED <<new_args, messages, overflow_checks, sibling>>

Style(S) ==
    \E s \in S :
        /\ toggler' = style(toggler, s)
        /\ last_set' = [last_set EXCEPT !.style = [some |-> TRUE, v |-> s]]
        /\ out' = Configured
        /\ UNCHANGED <<new_args, messages, overflow_checks, sibling>>

----------------------------------------------------------------------------
(* Actions: the Widget operations and their environment *)

OnEvent ==
    \E event \in Events, lay \in WidgetLayouts, cursor_position \in Points :
        LET r == on_event(toggler, event, lay, cursor_position, messages)
        IN  /\ Len(r.messages) <= MaxMessages
            /\ toggler' = r.self
            /\ messages' = r.messages
            /\ out' = [op |-> "on_event", event |-> event, layout |-> lay,
                       cursor_position |-> cursor_position, before |-> messages,
                       calls |-> r.calls, status |-> r.status]
            /\ UNCHANGED <<new_args, last_set, overflow_checks, sibling>>

\* Another widget of the tree, handling the same event, pushes its message.
OtherWidgetPush ==
    /\ Len(messages) < MaxMessages
    /\ messages' = Append(messages, OtherMessage)
    /\ out' = [op |-> "other"]
    /\ UNCHANGED <<toggler, new_args, last_set, overflow_checks, sibling>>

\* The runtime takes the queued messages to the application's update.
Drain ==
    /\ messages # <<>>
    /\ messages' = <<>>
    /\ out' = [op |-> "drain"]
    /\ UNCHANGED <<toggler, new_args, last_set, overflow_checks, sibling>>

Layout ==
    \E renderer \in Renderers, limits \in LimitsSet :
        LET r == layout(toggler, renderer, limits)
        IN  /\ out' = [op |-> "layout", limits |-> limits, outcome |-> r.outcome,
                       row |-> r.row, node |-> r.node]
            /\ UNCHANGED <<toggler, new_args, last_set, messages,
                           overflow_checks, sibling>>

\* The layouts this widget's own layout operation returns.
OwnLayouts ==
    {layout(toggler, renderer, limits).node :
        renderer \in Renderers,
        limits \in {l \in LimitsSet :
                       \A rd \in Renderers : layout(toggler, rd, l).outcome = "ok"}}

DrawWith(layouts, own) ==
    \E renderer \in Renderers, lay \in layouts, cursor_position \in Points :
        LET r == draw(toggler, renderer, Defaults, lay, cursor_position)
        IN  /\ out' = [op |-> "draw", layout |-> lay, own |-> own,
                       cursor_position |-> cursor_position,
                       outcome |-> r.outcome, text_calls |-> r.text_calls,
                       toggle_calls |-> r.toggle_calls, output |-> r.output]
            /\ UNCHANGED <<toggler, new_args, last_set, messages,
                           overflow_checks, sibling>>

Draw == DrawWith(AnyLayouts, FALSE) \/ DrawWith(OwnLayouts, TRUE)

HashLayout ==
    /\ out' = [op |-> "hash_layout", feed |-> hash_layout(toggler),
               sibling_feed |-> hash_layout(sibling)]
    /\ UNCHANGED <<toggler, new_args, last_set, messages, overflow_checks, sibling>>

----------------------------------------------------------------------------
(* Specifications *)

Next ==
    \/ Size(U16Samples)
    \/ Width(Lengths)
    \/ TextSize(SmallU16)
    \/ TextAlign(HorizontalAlignment)
    \/ Spacing(SmallU16)
    \/ Font(Fonts)
    \/ Style(Styles)
    \/ OnEvent
    \/ OtherWidgetPush
    \/ Drain
    \/ Layout
    \/ Draw
    \/ HashLayout

Spec == Init /\ [][Next]_vars

\* Construction and configuration only.
NextBuild ==
    \/ Size(U16Samples)
    \/ Width(Lengths)
    \/ TextSize(SmallU16)
    \/ TextAlign(HorizontalAlignment)
    \/ Spacing(SmallU16)
    \/ Font(Fonts)
    \/ Style(Styles)

SpecBuild == InitWith({FALSE}, {PlainSibling}) /\ [][NextBuild]_vars

\* Event dispatch to a constructed widget.
NextEvent == OnEvent \/ OtherWidgetPush \/ Drain

SpecEvent == InitWith({FALSE}, {PlainSibling}) /\ [][NextEvent]_vars

\* Layout of a widget configured in the fields layout reads.
NextLayout ==
    \/ Size(U16Samples)
    \/ Width(Lengths)
    \/ Spacing(SmallU16)
    \/ Layout

SpecLayout == InitWith(BOOLEAN, {PlainSibling}) /\ [][NextLayout]_vars

\* Drawing with a layout handed in by the framework or computed by the widget.
NextDraw == Size(U16Samples) \/ Draw

SpecDraw == InitWith(BOOLEAN, {PlainSibling}) /\ [][NextDraw]_vars

\* Layout hashing of two togglers of one view.
NextHash ==
    \/ Size({1})
    \/ Width({Shrink})
    \/ TextSize({7})
    \/ TextAlign({"Center"})
    \/ Spacing({7})
    \/ Font({"Monospace"})
    \/ Style({"Custom"})
    \/ HashLayout

SpecHash == InitWith({FALSE}, Siblings) /\ [][NextHash]_vars

----------------------------------------------------------------------------
(* Properties *)

LastWasEvent == out.op = "on_event"
CursorInside == contains(out.layout.bounds, out.cursor_position)
OwnMessage == Call(toggler.on_toggle, ~toggler.is_active)

\* C1: a left press with the cursor inside the overall layout bounds calls
\* on_toggle exactly once, with !is_active, appends exactly that message to
\* the end of the queue (what was queued before stays, in order), and
\* returns Captured.
C1_LeftPressInsideCaptured ==
    (LastWasEvent /\ out.event = LeftPress /\ CursorInside)
        => /\ out.calls = <<~toggler.is_active>>
           /\ messages = Append(out.before, OwnMessage)
           /\ out.status = "Captured"

C1_Witness ==
    /\ LastWasEvent /\ out.event = LeftPress /\ CursorInside
    /\ out.before # <<>>
    /\ out.status = "Captured"

\* C2: a left press with the cursor outside the overall layout bounds does
\* not call on_toggle, leaves the queue as it was and returns Ignored.
C2_LeftPressOutsideIgnored ==
    (LastWasEvent /\ out.event = LeftPress /\ ~CursorInside)
        => /\ out.calls = <<>>
           /\ messages = out.before
           /\ out.status = "Ignored"

C2_Witness ==
    /\ LastWasEvent /\ out.event = LeftPress /\ ~CursorInside
    /\ out.before # <<>>
    /\ out.status = "Ignored"

\* C3: any event that is not a left button press returns Ignored and queues
\* nothing, wherever the cursor is and whatever is_active is.
C3_OtherEventsIgnored ==
    (LastWasEvent /\ out.event # LeftPress)
        => /\ out.calls = <<>>
           /\ messages = out.before
           /\ out.status = "Ignored"

C3_Witness ==
    /\ LastWasEvent /\ CursorInside
    /\ out.event = [kind |-> "Mouse", ev |-> "ButtonPressed", button |-> "Right"]
    /\ out.status = "Ignored"

\* C4: on_event changes no field of the widget: is_active (and every other
\* field) is what new set, so each captured press emits the same message
\* on_toggle(!is_active), press after press.
C4_EventsLeaveWidgetUnchanged ==
    /\ toggler.is_active = new_args.is_active
    /\ toggler = new(new_args.is_active, new_args.label, new_args.on_toggle)
    /\ (LastWasEvent /\ out.status = "Captured")
          => messages[Len(messages)]
                = Call(new_args.on_toggle, ~new_args.is_active)

C4_Witness ==
    /\ LastWasEvent /\ out.status = "Captured"
    /\ Len(messages) >= 2
    /\ out.before # <<>>
    /\ out.before[Len(out.before)] = messages[Len(messages)]

LastWasLayout == out.op = "layout"

\* C5: layout builds a row of exactly two children, the label first and the
\* toggle-box second, and asks for the toggle-box at width 2 x size and
\* height size, whatever the label, spacing, width policy and limits are.
C5_RowOfLabelAndToggleBox ==
    LastWasLayout
        => /\ out.outcome = "ok"
           /\ Len(out.row.children) = 2
           /\ out.row.children[1].widget = "Text"
           /\ out.row.children[2].widget = "Row"
           /\ out.row.children[2].width = Units(2 * toggler.size)
           /\ out.row.children[2].height = Units(toggler.size)

LastWasHash == out.op = "hash_layout"

\* C6: hash_layout writes a type discriminator and the label and nothing
\* else: two togglers with the same label feed the hasher the same data
\* however their other fields differ, and two togglers with different
\* labels feed it different data.
C6_HashOfLabelOnly ==
    LastWasHash
        => /\ Len(out.feed) = 3
           /\ out.feed[1] = <<TYPE_ID_MARKER>>
           /\ out.feed[2] = toggler.label
           /\ (toggler.label = sibling.label) <=> (out.feed = out.sibling_feed)

C6_Witness ==
    /\ LastWasHash
    /\ toggler.label = sibling.label
    /\ out.feed = out.sibling_feed
    /\ toggler.is_active # sibling.is_active
    /\ toggler.size # sibling.size
    /\ toggler.spacing # sibling.spacing
    /\ toggler.width # sibling.width
    /\ toggler.text_size # sibling.text_size
    /\ toggler.text_align # sibling.text_align
    /\ toggler.font # sibling.font
    /\ toggler.style # sibling.style

\* What the fields must be after new(args) and a chain of setters whose last
\* values are ls.
Expected(args, ls) ==
    [is_active |-> args.is_active,
     on_toggle |-> args.on_toggle,
     label |-> args.label,
     width |-> unwrap_or(ls.width, Fill),
     size |-> unwrap_or(ls.size, DEFAULT_SIZE),
     text_size |-> ls.text_size,
     text_align |-> ls.text_align,
     spacing |-> unwrap_or(ls.spacing, 0),
     font |-> unwrap_or(ls.font, "Default"),
     style |-> unwrap_or(ls.style, "Default")]

\* C7: after new and any chain of setters, each configurable field holds the
\* last value its setter was given, or new's default if its setter never
\* ran, and is_active, label and on_toggle are new's arguments: so no setter
\* touches a field other than its own.
C7_SettersReplaceOwnFieldOnly == toggler = Expected(new_args, last_set)

C7_Witness ==
    /\ last_set.size.some /\ last_set.width.some /\ last_set.text_size.some
    /\ last_set.text_align.some /\ last_set.spacing.some
    /\ last_set.font.some /\ last_set.style.some
    /\ toggler.size = 1
    /\ toggler.spacing = 7
    /\ toggler.width = Shrink

LastWasDraw == out.op = "draw"

\* C8: draw panics, before any call to the text renderer or the toggle
\* renderer, when its layout has fewer than two children; with two or more
\* it returns an output; the widget's own layouts never make it panic.
C8_DrawNeedsTwoChildren ==
    LastWasDraw
        => /\ Len(out.layout.children) < 2
                => /\ out.outcome = "panic"
                   /\ out.text_calls = <<>>
                   /\ out.toggle_calls = <<>>
           /\ Len(out.layout.children) >= 2
                => /\ out.outcome = "ok"
                   /\ out.output.primitive = "Toggler"
           /\ out.own => out.outcome = "ok"

C8_Witness ==
    /\ LastWasDraw
    /\ Len(out.layout.children) = 1
    /\ out.outcome = "panic"

\* C9: draw hands the toggle renderer the second child's bounds, the
\* widget's is_active, and is_mouse_over taken from the outer bounds, so
\* is_mouse_over holds exactly when a left press at that cursor position
\* with that layout would be Captured.
C9_MouseOverIsOuterBounds ==
    (LastWasDraw /\ out.outcome = "ok")
        => /\ Len(out.toggle_calls) = 1
           /\ out.toggle_calls[1].bounds = out.layout.children[2].bounds
           /\ out.toggle_calls[1].is_active = toggler.is_active
           /\ out.toggle_calls[1].is_mouse_over = CursorInside
           /\ out.toggle_calls[1].is_mouse_over
                <=> on_event(toggler, LeftPress, out.layout,
                             out.cursor_position, <<>>).status = "Captured"

C9_Witness ==
    /\ LastWasDraw /\ out.outcome = "ok"
    /\ out.toggle_calls[1].is_mouse_over
    /\ ~contains(out.layout.children[2].bounds, out.cursor_position)

\* C10: for every size the setter accepts, the toggle-box width layout
\* computes in 16 bits is the mathematical 2 x size: the multiplication
\* neither overflows nor wraps.
C10_DoubleSizeFitsU16 ==
    LastWasLayout
        => /\ ~out.row.overflow
           /\ out.row.children[2].width.n = 2 * toggler.size

====
